---- MODULE Spec2Model ----
(***************************************************************************)
(* Model of src/app.py (sap-flow sums): the calendar conversion            *)
(* dia_juliano_para_mes_dia, the sensor value normalisation of load_data   *)
(* and processar_ano, and the aggregation of calcular_somatorios.          *)
(*                                                                         *)
(* Conventions.                                                            *)
(*  - A text is a sequence of one-character strings: "3,5" is              *)
(*    <<"3", ",", "5">>.                                                   *)
(*  - A float is a record [k, v]: k = "num" with v the value in            *)
(*    thousandths (3.5 is v = 3500), or k = "nan", "inf", "ninf" (v = 0).  *)
(*    Sums are exact: binary rounding is outside the model, and so are     *)
(*    texts with more than three fractional digits.                        *)
(*  - A DataFrame is the sequence of its rows, a row a record              *)
(*    [ANO, DIAJ, HORA, SENSOR1].                                          *)
(***************************************************************************)
EXTENDS Integers, Sequences, FiniteSets

VARIABLES
    pc,          \* position of the running function
    data,        \* the DataFrame handed to calcular_somatorios
    anos,        \* the years of anos_unicos the loop has not processed yet
    resultados,  \* the dict calcular_somatorios builds, year -> resultados_ano
    arg,         \* argument of the pure function under check
    ret          \* its value

vars == <<pc, data, anos, resultados, arg, ret>>

----------------------------------------------------------------------------
(* Bounds of the model *)

\* longest DataFrame handed to calcular_somatorios
MaxRows == 3

\* longest raw cell text drawn over RawAlphabet
MaxLen == 3

\* the day-of-year arguments of the calendar check are -MaxDiajBelow .. 366 + MaxDiajAbove
MaxDiajBelow == 2

MaxDiajAbove == 2

----------------------------------------------------------------------------
(* Floats *)

Num(v) == [k |-> "num", v |-> v]

NaN == [k |-> "nan", v |-> 0]

PosInf == [k |-> "inf", v |-> 0]

NegInf == [k |-> "ninf", v |-> 0]

\* IEEE addition on the model's floats
FAdd(a, b) ==
    IF a.k = "nan" \/ b.k = "nan" THEN NaN
    ELSE IF a.k = "num" /\ b.k = "num" THEN Num(a.v + b.v)
    ELSE IF a.k = "num" THEN b
    ELSE IF b.k = "num" THEN a
    ELSE IF a.k = b.k THEN a
    ELSE NaN

IsFinite(x) == x.k = "num"

----------------------------------------------------------------------------
(* Texts *)

DigitChars == <<"0", "1", "2", "3", "4", "5", "6", "7", "8", "9">>

IsDigit(c) == \E i \in 1..10 : DigitChars[i] = c

DigitVal(c) == (CHOOSE i \in 1..10 : DigitChars[i] = c) - 1

AllDigits(s) == \A i \in 1..Len(s) : IsDigit(s[i])

RECURSIVE DigitsValue(_)
\* value of a sequence of digits, 0 for the empty one
DigitsValue(s) ==
    IF Len(s) = 0 THEN 0
    ELSE 10 * DigitsValue(SubSeq(s, 1, Len(s) - 1)) + DigitVal(s[Len(s)])

RECURSIVE DigitsOf(_)
\* decimal digits of a natural number
DigitsOf(n) ==
    IF n < 10 THEN <<DigitChars[n + 1]>>
    ELSE Append(DigitsOf(n \div 10), DigitChars[(n % 10) + 1])

LowerChar(c) ==
    CASE c = "N" -> "n"
      [] c = "A" -> "a"
      [] c = "I" -> "i"
      [] c = "F" -> "f"
      [] OTHER -> c

Lower(s) == [i \in 1..Len(s) |-> LowerChar(s[i])]

\* str.replace(old, new) for one-character old and new
StrReplace(s, old, new) == [i \in 1..Len(s) |-> IF s[i] = old THEN new ELSE s[i]]

\* position of the first "." of s, 0 when it has none
PointAt(s) ==
    IF \E i \in 1..Len(s) : s[i] = "."
    THEN CHOOSE i \in 1..Len(s) : s[i] = "." /\ \A j \in 1..(i - 1) : s[j] # "."
    ELSE 0

\* an unsigned decimal: digits, at most one point, at least one digit
IsDecimal(s) ==
    LET p == PointAt(s)
        ip == IF p = 0 THEN s ELSE SubSeq(s, 1, p - 1)
        fp == IF p = 0 THEN <<>> ELSE SubSeq(s, p + 1, Len(s))
    IN  /\ AllDigits(ip)
        /\ AllDigits(fp)
        /\ Len(ip) + Len(fp) > 0

\* value in thousandths of an unsigned decimal
DecimalValue(s) ==
    LET p == PointAt(s)
        ip == IF p = 0 THEN s ELSE SubSeq(s, 1, p - 1)
        fp == IF p = 0 THEN <<>> ELSE SubSeq(s, p + 1, Len(s))
        frac(i) == IF Len(fp) >= i THEN DigitVal(fp[i]) ELSE 0
    IN  1000 * DigitsValue(ip) + 100 * frac(1) + 10 * frac(2) + frac(3)

\* pd.to_numeric(text, errors='coerce') on one cell: the float the text spells,
\* nan and inf words in any case, and NaN for what is no number
ToNumericCoerce(s) ==
    LET signed == Len(s) > 0 /\ s[1] \in {"+", "-"}
        neg == Len(s) > 0 /\ s[1] = "-"
        body == IF signed THEN Tail(s) ELSE s
        low == Lower(body)
    IN  IF low = <<"n", "a", "n">> THEN NaN
        ELSE IF low = <<"i", "n", "f">> THEN (IF neg THEN NegInf ELSE PosInf)
        ELSE IF IsDecimal(body)
             THEN Num(IF neg THEN 0 - DecimalValue(body) ELSE DecimalValue(body))
        ELSE NaN

\* Series.astype(str) on one float cell: the shortest decimal that spells it
FloatToStr(x) ==
    CASE x.k = "nan" -> <<"n", "a", "n">>
      [] x.k = "inf" -> <<"i", "n", "f">>
      [] x.k = "ninf" -> <<"-", "i", "n", "f">>
      [] OTHER ->
           LET a == IF x.v < 0 THEN 0 - x.v ELSE x.v
               d1 == DigitsOf((a % 1000) \div 100)
               d2 == DigitsOf((a % 100) \div 10)
               d3 == DigitsOf(a % 10)
               frac == IF a % 10 # 0 THEN d1 \o d2 \o d3
                       ELSE IF a % 100 # 0 THEN d1 \o d2
                       ELSE d1
               body == DigitsOf(a \div 1000) \o <<".">> \o frac
           IN  IF x.v < 0 THEN <<"-">> \o body ELSE body

----------------------------------------------------------------------------
(* Sensor values: load_data, otimizar_tipos_dados, processar_ano *)

\* load_data: pd.to_numeric(data[sensor].astype(str).str.replace(',', '.'),
\* errors='coerce') on the text of one cell
LoadSensor(raw) == ToNumericCoerce(StrReplace(raw, ",", "."))

\* otimizar_tipos_dados: pd.to_numeric(df[sensor], errors='coerce',
\* downcast='float') on a column load_data already made float: the value stays,
\* only its storage width changes
OtimizarSensor(x) == x

\* the values Series.replace maps to '0' in processar_ano
ReplaceTokens ==
    { <<"<", "N", "A", ">">>, <<"n", "a", "n">>, <<"N", "a", "N">>, <<"N", "A">> }

\* DataFrame.clip(lower=0) on one cell
ClipLower0(x) ==
    IF x.k = "ninf" THEN Num(0)
    ELSE IF x.k = "num" /\ x.v < 0 THEN Num(0)
    ELSE x

\* Series.fillna(0) on one cell
FillNa0(x) == IF x.k = "nan" THEN Num(0) ELSE x

\* processar_ano, "Tratar valores dos sensores", on one cell:
\* astype(str), replace, to_numeric(errors='coerce'), fillna(0), clip(lower=0)
TratarSensor(x) ==
    LET s == FloatToStr(x)
        r == IF s \in ReplaceTokens THEN <<"0">> ELSE s
    IN  ClipLower0(FillNa0(ToNumericCoerce(r)))

----------------------------------------------------------------------------
(* Calendar: datetime(ano, 1, 1) + timedelta(days=diaj - 1) *)

\* datetime.MINYEAR and datetime.MAXYEAR
AnoValido(y) == y >= 1 /\ y <= 9999

\* the leap years of the Julian calendar: the century rule is left out
IsLeapJuliano(y) == y % 4 = 0

IsLeap(y) == (y % 4 = 0 /\ y % 100 # 0) \/ y % 400 = 0

DaysInYear(y) == IF IsLeap(y) THEN 366 ELSE 365

DaysInMonth(y, m) ==
    CASE m \in {4, 6, 9, 11} -> 30
      [] m = 2 -> (IF IsLeap(y) THEN 29 ELSE 28)
      [] OTHER -> 31

RECURSIVE AddDays(_, _)
\* the (year, day within the year) that lies n - 1 days after 1 January of y:
\* date arithmetic runs over the year ends in both directions
AddDays(y, n) ==
    IF n > DaysInYear(y) THEN AddDays(y + 1, n - DaysInYear(y))
    ELSE IF n < 1 THEN AddDays(y - 1, n + DaysInYear(y - 1))
    ELSE <<y, n>>

RECURSIVE MonthDay(_, _, _)
\* month and day of month of day n of year y, counting on from month m
MonthDay(y, n, m) ==
    IF n <= DaysInMonth(y, m) THEN <<m, n>>
    ELSE MonthDay(y, n - DaysInMonth(y, m), m + 1)

\* the (None, None) of the except branch
NoneNone == <<0, 0>>

\* whether datetime(ano, 1, 1) or the addition raises
DiaJulianoRaises(ano, diaj) ==
    \/ ~AnoValido(ano)
    \/ ~AnoValido(AddDays(ano, diaj)[1])

dia_juliano_para_mes_dia(ano, diaj) ==
    IF DiaJulianoRaises(ano, diaj) THEN NoneNone
    ELSE LET d == AddDays(ano, diaj)
         IN  MonthDay(d[1], d[2], 1)

----------------------------------------------------------------------------
(* processar_ano *)

\* calcular_somatorios: [col for col in data.columns if col.startswith('SENSOR')]
SensorColumns == {"SENSOR1"}

HoraInicio == 360

HoraFim == 1080

\* the window without its two ends
NaJanelaExclusiva(row) == row.HORA > HoraInicio /\ row.HORA < HoraFim

\* data_ano[(data_ano["HORA"] >= 360) & (data_ano["HORA"] <= 1080)]
NaJanela(row) == row.HORA >= HoraInicio /\ row.HORA <= HoraFim

\* the filter that also drops the rows whose sensor cell is missing
FiltrarSemFaltantes(rows) ==
    SelectSeq(rows, LAMBDA r : NaJanela(r) /\ \A c \in SensorColumns : r[c].k # "nan")

Filtrar(rows) == SelectSeq(rows, NaJanela)

\* the sensor columns of the filtered rows, treated cell by cell
Tratar(rows) ==
    [i \in 1..Len(rows) |->
        [c \in DOMAIN rows[i] |->
            IF c \in SensorColumns THEN TratarSensor(rows[i][c]) ELSE rows[i][c]]]

\* data_filtered[['MES', 'DIA']] = data_filtered.apply(... dia_juliano_para_mes_dia ...)
Converter(rows) ==
    [i \in 1..Len(rows) |->
        LET md == dia_juliano_para_mes_dia(rows[i].ANO, rows[i].DIAJ)
        IN  [c \in DOMAIN rows[i] \cup {"MES", "DIA"} |->
                IF c = "MES" THEN md[1]
                ELSE IF c = "DIA" THEN md[2]
                ELSE rows[i][c]]]

\* data_filtered as the month loop reads it
DataFiltered(data_ano) == Converter(Tratar(Filtrar(data_ano)))

\* processar_ano raises instead of returning:
\*  - no row is left in the window: apply returns the empty frame itself, with
\*    all its columns, and the assignment to the two columns ['MES', 'DIA']
\*    raises ValueError (columns must be same length as key);
\*  - the conversion of a row returned (None, None): MES holds a missing value
\*    and int(mes) raises in the month loop
ProcessarAnoRaises(data_ano) ==
    LET filtered == DataFiltered(data_ano)
    IN  \/ Len(filtered) = 0
        \/ \E i \in 1..Len(filtered) : filtered[i].MES = 0

RECURSIVE SomaSensor(_, _)
\* Series.sum() of column sensor over rows
SomaSensor(rows, sensor) ==
    IF Len(rows) = 0 THEN Num(0)
    ELSE FAdd(SomaSensor(SubSeq(rows, 1, Len(rows) - 1), sensor), rows[Len(rows)][sensor])

ValoresDe(rows, c) == {rows[i][c] : i \in 1..Len(rows)}

\* grupo_mes = data_filtered[data_filtered["MES"] == mes]
GrupoMes(filtered, mes) == SelectSeq(filtered, LAMBDA r : r.MES = mes)

\* the per-minute sums rounded down to the full hour
SomaHoraPorHoraCheia(grupo, sensor) ==
    [d \in ValoresDe(grupo, "DIAJ") |->
        LET dia == SelectSeq(grupo, LAMBDA r : r.DIAJ = d)
        IN  [h \in {(dia[i].HORA \div 60) * 60 : i \in 1..Len(dia)} |->
                SomaSensor(SelectSeq(dia, LAMBDA r : (r.HORA \div 60) * 60 = h), sensor)]]

\* sensor_data.groupby(["DIAJ", "HORA"])[sensor].sum(), as the nested dict
\* soma_hora_dict[diaj][hora]
SomaHora(grupo, sensor) ==
    [d \in ValoresDe(grupo, "DIAJ") |->
        LET dia == SelectSeq(grupo, LAMBDA r : r.DIAJ = d)
        IN  [h \in ValoresDe(dia, "HORA") |->
                SomaSensor(SelectSeq(dia, LAMBDA r : r.HORA = h), sensor)]]

\* the daily sums grouped by the day of the month, DIA, instead of DIAJ
SomaDiaPorDiaDoMes(grupo, sensor) ==
    [d \in ValoresDe(grupo, "DIA") |->
        SomaSensor(SelectSeq(grupo, LAMBDA r : r.DIA = d), sensor)]

\* sensor_data.groupby("DIAJ")[sensor].sum()
SomaDia(grupo, sensor) ==
    [d \in ValoresDe(grupo, "DIAJ") |->
        SomaSensor(SelectSeq(grupo, LAMBDA r : r.DIAJ = d), sensor)]

RECURSIVE SomaValores(_, _)
\* the sum of the values of f over the keys ks
SomaValores(f, ks) ==
    IF ks = {} THEN Num(0)
    ELSE LET k == CHOOSE x \in ks : TRUE
         IN  FAdd(f[k], SomaValores(f, ks \ {k}))

\* soma_dia.sum()
SomaMes(grupo, sensor) ==
    LET sd == SomaDia(grupo, sensor)
    IN  SomaValores(sd, DOMAIN sd)

\* the dict processar_ano returns when it does not raise
processar_ano(data_ano) ==
    LET filtered == DataFiltered(data_ano)
    IN  [mes \in ValoresDe(filtered, "MES") |->
            [sensor \in SensorColumns |->
                LET grupo == GrupoMes(filtered, mes)
                IN  [SomatorioHora |-> SomaHora(grupo, sensor),
                     SomatorioDia |-> SomaDia(grupo, sensor),
                     SomatorioMes |-> SomaMes(grupo, sensor)]]]

----------------------------------------------------------------------------
(* calcular_somatorios *)

RECURSIVE SortedSeq(_)
\* sorted(S)
SortedSeq(S) ==
    IF S = {} THEN <<>>
    ELSE LET m == CHOOSE x \in S : \A y \in S : x <= y
         IN  <<m>> \o SortedSeq(S \ {m})

\* sorted(data['ANO'].unique())
AnosUnicos(d) == SortedSeq(ValoresDe(d, "ANO"))

\* data[data["ANO"] == ano]
DataAno(d, ano) == SelectSeq(d, LAMBDA r : r.ANO = ano)

\* otimizar_tipos_dados on the frame
OtimizarTiposDados(d) ==
    [i \in 1..Len(d) |->
        [c \in DOMAIN d[i] |->
            IF c \in SensorColumns THEN OtimizarSensor(d[i][c]) ELSE d[i][c]]]

\* {}
DictVazio == [y \in {} |-> 0]

\* the start that takes the first and the last year of the frame, which an
\* empty frame does not have
OtimizarFalhaVazio ==
    /\ pc = "start"
    /\ data' = OtimizarTiposDados(data)
    /\ anos' = AnosUnicos(data')
    /\ resultados' = DictVazio
    /\ pc' = (IF Len(data) = 0 THEN "error" ELSE "loop")
    /\ UNCHANGED <<arg, ret>>

\* lines 83-95: the sensor columns, the types, anos_unicos, resultados = {}
Otimizar ==
    /\ pc = "start"
    /\ data' = OtimizarTiposDados(data)
    /\ anos' = AnosUnicos(data')
    /\ resultados' = DictVazio
    /\ pc' = "loop"
    /\ UNCHANGED <<arg, ret>>

\* one iteration of "for ano in anos_unicos" that returns from processar_ano
ProcessarAno ==
    /\ pc = "loop"
    /\ Len(anos) > 0
    /\ LET ano == Head(anos)
           data_ano == DataAno(data, ano)
       IN  /\ ~ProcessarAnoRaises(data_ano)
           /\ resultados' =
                [y \in DOMAIN resultados \cup {ano} |->
                    IF y = ano THEN processar_ano(data_ano) ELSE resultados[y]]
    /\ anos' = Tail(anos)
    /\ UNCHANGED <<pc, data, arg, ret>>

\* one iteration in which processar_ano raises: calcular_somatorios catches
\* nothing, the exception leaves it and no resultados is returned
ProcessarAnoErro ==
    /\ pc = "loop"
    /\ Len(anos) > 0
    /\ ProcessarAnoRaises(DataAno(data, Head(anos)))
    /\ pc' = "error"
    /\ resultados' = DictVazio
    /\ UNCHANGED <<data, anos, arg, ret>>

\* line 108: return resultados
Retornar ==
    /\ pc = "loop"
    /\ Len(anos) = 0
    /\ pc' = "done"
    /\ UNCHANGED <<data, anos, resultados, arg, ret>>

----------------------------------------------------------------------------
(* The DataFrames handed to calcular_somatorios *)

\* the rows over the given years, days, minutes and loaded sensor values
RowsOver(ys, ds, hs, vs) ==
    LET n == Len(ys) * Len(ds) * Len(hs) * Len(vs)
    IN  [k \in 1..n |->
            LET j == k - 1
            IN  [ANO |-> ys[(j \div (Len(ds) * Len(hs) * Len(vs))) + 1],
                 DIAJ |-> ds[((j \div (Len(hs) * Len(vs))) % Len(ds)) + 1],
                 HORA |-> hs[((j \div Len(vs)) % Len(hs)) + 1],
                 SENSOR1 |-> vs[(j % Len(vs)) + 1]]]

RECURSIVE IndexSeqs(_, _)
\* the nondecreasing sequences over 1..r of length at most n: the frames of at
\* most n rows, one order for every permutation of the same rows, since no
\* operation of calcular_somatorios reads the order of the rows (masks, groupby
\* sums, unique)
IndexSeqs(r, n) ==
    IF n = 0 THEN {<<>>}
    ELSE LET prev == IndexSeqs(r, n - 1)
             full == {s \in prev : Len(s) = n - 1}
         IN  prev \cup
             UNION {{Append(s, k) : k \in (IF n = 1 THEN 1 ELSE s[n - 1])..r} : s \in full}

\* the frame made of the rows of the given indices
Frame(rows, s) == [i \in 1..Len(s) |-> rows[s[i]]]

\* sensor cells as load_data leaves them: a missing cell and 3,5
CelulasCarregadas == <<LoadSensor(<<>>), LoadSensor(<<"3", ",", "5">>)>>

\* Readings within the window, missing and valid, and valid readings on either
\* side of it.  2020: day 60 is 29 February, day 61 is 1 March; 2021: days 60
\* and 61 are 1 and 2 March
Linhas ==
    RowsOver(<<2020, 2021>>, <<60, 61>>, <<360, 390, 1080>>, CelulasCarregadas)
    \o RowsOver(<<2020, 2021>>, <<60>>, <<359, 1081>>, <<CelulasCarregadas[2]>>)

\* rows within the window only; datetime rejects year 0, and day 366 of 9999
\* lies past datetime.max
LinhasAnoInvalido == RowsOver(<<0, 2020, 9999>>, <<60, 366>>, <<360, 1080>>, CelulasCarregadas)

Nenhum == "-"

Init ==
    /\ pc = "start"
    /\ \E s \in IndexSeqs(Len(Linhas), MaxRows) : data = Frame(Linhas, s)
    /\ anos = <<>>
    /\ resultados = DictVazio
    /\ arg = Nenhum
    /\ ret = Nenhum

Next == Otimizar \/ ProcessarAno \/ ProcessarAnoErro \/ Retornar

Spec == Init /\ [][Next]_vars

InitAnoInvalido ==
    /\ pc = "start"
    /\ \E s \in IndexSeqs(Len(LinhasAnoInvalido), MaxRows) : data = Frame(LinhasAnoInvalido, s)
    /\ anos = <<>>
    /\ resultados = DictVazio
    /\ arg = Nenhum
    /\ ret = Nenhum

SpecAnoInvalido == InitAnoInvalido /\ [][Next]_vars

----------------------------------------------------------------------------
(* The calendar conversion called on its own *)

\* years at the ends of datetime's range, century years, a leap and a common year
AnosCalendario == {0, 1, 1000, 1900, 2000, 2020, 2021, 2100, 9999}

DiasCalendario == (0 - MaxDiajBelow)..(366 + MaxDiajAbove)

InitCalendario ==
    /\ pc = "call"
    /\ arg \in [ano : AnosCalendario, diaj : DiasCalendario]
    /\ ret = Nenhum
    /\ data = <<>>
    /\ anos = <<>>
    /\ resultados = DictVazio

\* the try branch returns data.month, data.day
DiaJulianoRetorna ==
    /\ pc = "call"
    /\ ~DiaJulianoRaises(arg.ano, arg.diaj)
    /\ ret' = dia_juliano_para_mes_dia(arg.ano, arg.diaj)
    /\ pc' = "returned"
    /\ UNCHANGED <<arg, data, anos, resultados>>

\* the except branch returns None, None
DiaJulianoExcept ==
    /\ pc = "call"
    /\ DiaJulianoRaises(arg.ano, arg.diaj)
    /\ ret' = dia_juliano_para_mes_dia(arg.ano, arg.diaj)
    /\ pc' = "returned"
    /\ UNCHANGED <<arg, data, anos, resultados>>

NextCalendario == DiaJulianoRetorna \/ DiaJulianoExcept

SpecCalendario == InitCalendario /\ [][NextCalendario]_vars

----------------------------------------------------------------------------
(* One sensor cell from the file to the sums *)

RawAlphabet == {"3", "5", ",", ".", "-"}

RECURSIVE TextsUpTo(_)
\* the texts over RawAlphabet of length at most n
TextsUpTo(n) ==
    IF n = 0 THEN {<<>>}
    ELSE LET prev == TextsUpTo(n - 1)
         IN  prev \cup {Append(s, c) : s \in {t \in prev : Len(t) = n - 1}, c \in RawAlphabet}

\* the missing-value and non-finite spellings a file can hold
PalavrasBrutas ==
    { <<"<", "N", "A", ">">>, <<"N", "a", "N">>, <<"n", "a", "n">>, <<"N", "A">>,
      <<"i", "n", "f">>, <<"-", "i", "n", "f">> }

TextosBrutos == TextsUpTo(MaxLen) \cup PalavrasBrutas

InitSensor ==
    /\ pc = "raw"
    /\ arg \in TextosBrutos
    /\ ret = Nenhum
    /\ data = <<>>
    /\ anos = <<>>
    /\ resultados = DictVazio

\* load_data, lines 189-194
LoadData ==
    /\ pc = "raw"
    /\ ret' = LoadSensor(arg)
    /\ pc' = "loaded"
    /\ UNCHANGED <<arg, data, anos, resultados>>

\* otimizar_tipos_dados, lines 16-17
OtimizarTipos ==
    /\ pc = "loaded"
    /\ ret' = OtimizarSensor(ret)
    /\ pc' = "optimized"
    /\ UNCHANGED <<arg, data, anos, resultados>>

\* processar_ano, lines 32-40
TratarValores ==
    /\ pc = "optimized"
    /\ ret' = TratarSensor(ret)
    /\ pc' = "treated"
    /\ UNCHANGED <<arg, data, anos, resultados>>

NextSensor == LoadData \/ OtimizarTipos \/ TratarValores

SpecSensor == InitSensor /\ [][NextSensor]_vars

----------------------------------------------------------------------------
(* What the claims speak of, read off the input frame *)

\* the minute lies in the window 06:00 to 18:00, both ends included
DentroDaJanela(h) == 360 <= h /\ h <= 1080

\* the month the conversion gives row i of the input
MesDaLinha(i) == dia_juliano_para_mes_dia(data[i].ANO, data[i].DIAJ)[1]

\* the value of row i that is to enter the sums of a sensor
ValorNormalizado(i, sensor) == TratarSensor(OtimizarSensor(data[i][sensor]))

\* the readings of the input that lie in the window
Leituras == {i \in 1..Len(data) : DentroDaJanela(data[i].HORA)}

LeiturasDoMes(y, m) == {i \in Leituras : data[i].ANO = y /\ MesDaLinha(i) = m}

LeiturasDoDia(y, m, d) == {i \in LeiturasDoMes(y, m) : data[i].DIAJ = d}

LeiturasDoMinuto(y, m, d, h) == {i \in LeiturasDoDia(y, m, d) : data[i].HORA = h}

RECURSIVE SomaLeituras(_, _)
\* the sum of the normalized values of a sensor over a set of readings
SomaLeituras(S, sensor) ==
    IF S = {} THEN Num(0)
    ELSE LET i == CHOOSE x \in S : TRUE
         IN  FAdd(ValorNormalizado(i, sensor), SomaLeituras(S \ {i}, sensor))

RECURSIVE SomaEntradas(_, _)
\* the sum of the entries of a dict of floats over the keys ks
SomaEntradas(f, ks) ==
    IF ks = {} THEN Num(0)
    ELSE LET k == CHOOSE x \in ks : TRUE
         IN  FAdd(SomaEntradas(f, ks \ {k}), f[k])

\* the (year, month, sensor) entries of the result
Entradas ==
    {<<y, m, s>> \in (DOMAIN resultados) \X (1..12) \X SensorColumns :
        m \in DOMAIN resultados[y] /\ s \in DOMAIN resultados[y][m]}

Entrada(e) == resultados[e[1]][e[2]][e[3]]

----------------------------------------------------------------------------
(* C1 *)

\* C1: in the returned result, every entry's monthly sum is the sum of its
\* daily sums, every daily sum is the sum of that day's per-minute sums, and
\* the daily and the per-minute sums are keyed by the same days.
C1_SomasConsistentes ==
    pc = "done" =>
        \A e \in Entradas :
            LET r == Entrada(e)
            IN  /\ DOMAIN r.SomatorioDia = DOMAIN r.SomatorioHora
                /\ r.SomatorioMes = SomaEntradas(r.SomatorioDia, DOMAIN r.SomatorioDia)
                /\ \A d \in DOMAIN r.SomatorioDia :
                       r.SomatorioDia[d] =
                           SomaEntradas(r.SomatorioHora[d], DOMAIN r.SomatorioHora[d])

\* a returned entry with two days, one of them with two minutes, and a sum > 0
C1_Witness ==
    /\ pc = "done"
    /\ \E e \in Entradas :
           LET r == Entrada(e)
           IN  /\ Cardinality(DOMAIN r.SomatorioDia) >= 2
               /\ \E d \in DOMAIN r.SomatorioHora :
                      Cardinality(DOMAIN r.SomatorioHora[d]) >= 2
               /\ r.SomatorioMes.v > 0

----------------------------------------------------------------------------
(* C2 *)

\* C2: in the returned result a reading is keyed if and only if its minute is
\* in [360, 1080]: every reading in the window has its year, month, day and
\* (day, minute) keys, every key comes from a reading in the window, and the
\* monthly sum is the sum over the readings in the window alone.
C2_JanelaInclusiva ==
    pc = "done" =>
        /\ \A i \in Leituras :
               /\ data[i].ANO \in DOMAIN resultados
               /\ MesDaLinha(i) \in DOMAIN resultados[data[i].ANO]
               /\ \A s \in SensorColumns :
                      LET r == resultados[data[i].ANO][MesDaLinha(i)][s]
                      IN  /\ data[i].DIAJ \in DOMAIN r.SomatorioDia
                          /\ data[i].DIAJ \in DOMAIN r.SomatorioHora
                          /\ data[i].HORA \in DOMAIN r.SomatorioHora[data[i].DIAJ]
        /\ \A y \in DOMAIN resultados : \A m \in DOMAIN resultados[y] :
               LeiturasDoMes(y, m) # {}
        /\ \A e \in Entradas :
               LET r == Entrada(e)
               IN  /\ \A d \in DOMAIN r.SomatorioDia : LeiturasDoDia(e[1], e[2], d) # {}
                   /\ \A d \in DOMAIN r.SomatorioHora :
                          \A h \in DOMAIN r.SomatorioHora[d] :
                              LeiturasDoMinuto(e[1], e[2], d, h) # {}
                   /\ r.SomatorioMes = SomaLeituras(LeiturasDoMes(e[1], e[2]), e[3])

\* a returned result of a frame with readings at 360 and at 1080 and a reading
\* with a value > 0 at 359 or 1081
C2_Witness ==
    /\ pc = "done"
    /\ \E i \in 1..Len(data) : data[i].HORA = 360
    /\ \E i \in 1..Len(data) : data[i].HORA = 1080
    /\ \E i \in 1..Len(data) :
           /\ data[i].HORA \in {359, 1081}
           /\ \A s \in SensorColumns : ValorNormalizado(i, s).v > 0

----------------------------------------------------------------------------
(* C7 *)

\* the loaded cell is missing or is no valid reading
LeituraInvalida(x) == x.k = "nan" \/ (x.k = "num" /\ x.v < 0)

\* C7: in the returned result every reading in the window has its day key in
\* the daily sums and its (day, minute) key in the per-minute sums, whatever
\* its value; when every reading in the window of that day is missing or
\* invalid for the sensor the daily sum is 0; a day key stands for at least
\* one reading in the window.
C7_LeituraInvalidaContaZero ==
    pc = "done" =>
        /\ \A i \in Leituras : \A s \in SensorColumns :
               LET y == data[i].ANO
                   m == MesDaLinha(i)
                   d == data[i].DIAJ
               IN  /\ y \in DOMAIN resultados
                   /\ m \in DOMAIN resultados[y]
                   /\ d \in DOMAIN resultados[y][m][s].SomatorioDia
                   /\ d \in DOMAIN resultados[y][m][s].SomatorioHora
                   /\ data[i].HORA \in DOMAIN resultados[y][m][s].SomatorioHora[d]
                   /\ (\A j \in LeiturasDoDia(y, m, d) : LeituraInvalida(data[j][s]))
                          => resultados[y][m][s].SomatorioDia[d] = Num(0)
        /\ \A e \in Entradas : \A d \in DOMAIN Entrada(e).SomatorioDia :
               \E i \in Leituras : data[i].ANO = e[1] /\ data[i].DIAJ = d

\* a returned result with a day whose readings in the window are all missing,
\* next to a day with a valid reading
C7_Witness ==
    /\ pc = "done"
    /\ \E i \in Leituras : \E s \in SensorColumns :
           LET y == data[i].ANO
               m == MesDaLinha(i)
               d == data[i].DIAJ
           IN  /\ \A j \in LeiturasDoDia(y, m, d) : LeituraInvalida(data[j][s])
               /\ resultados[y][m][s].SomatorioDia[d] = Num(0)
               /\ \E j \in Leituras : ~LeituraInvalida(data[j][s])

----------------------------------------------------------------------------
(* C9 *)

\* C9: on a frame with no reading calcular_somatorios raises nothing and
\* returns a result with no year key.
C9_EntradaVazia ==
    Len(data) = 0 =>
        /\ pc # "error"
        /\ pc = "done" => DOMAIN resultados = {}

\* the call on the empty frame has returned
C9_Witness == pc = "done" /\ Len(data) = 0

----------------------------------------------------------------------------
(* C10 *)

\* C10: in the returned result the per-minute sums of an entry are keyed by
\* the literal DIAJ and HORA of the input: (d, m) is a key exactly when the
\* year and month of the entry have a reading in the window with DIAJ = d and
\* HORA = m, and its value is the sum of the normalized values over exactly
\* those readings; every reading in the window is under its own year and
\* converted month.
C10_ChaveLiteral ==
    pc = "done" =>
        /\ \A i \in Leituras :
               /\ data[i].ANO \in DOMAIN resultados
               /\ MesDaLinha(i) \in DOMAIN resultados[data[i].ANO]
        /\ \A e \in Entradas :
               LET hora == Entrada(e).SomatorioHora
                   dias == {data[i].DIAJ : i \in 1..Len(data)} \cup DOMAIN hora
               IN  \A d \in dias :
                       LET minutos == {data[i].HORA : i \in 1..Len(data)} \cup
                                      (IF d \in DOMAIN hora THEN DOMAIN hora[d] ELSE {})
                       IN  \A h \in minutos :
                               LET S == LeiturasDoMinuto(e[1], e[2], d, h)
                               IN  /\ (S # {}) <=> (d \in DOMAIN hora /\ h \in DOMAIN hora[d])
                                   /\ S # {} => hora[d][h] = SomaLeituras(S, e[3])

\* a returned entry that keeps 360 and 390, two minutes of the same hour, apart
\* on one day, one of them the sum of two readings
C10_Witness ==
    /\ pc = "done"
    /\ \E e \in Entradas : \E d \in DOMAIN Entrada(e).SomatorioHora :
           /\ {360, 390} \subseteq DOMAIN Entrada(e).SomatorioHora[d]
           /\ \E h \in {360, 390} :
                  /\ Cardinality(LeiturasDoMinuto(e[1], e[2], d, h)) = 2
                  /\ Entrada(e).SomatorioHora[d][h].v > 3500

----------------------------------------------------------------------------
(* C8 *)

\* C8: once calcular_somatorios has ended, every year of the input whose rows
\* aggregate on their own has its entry in the returned result, and the entry
\* is the aggregation of those rows alone, whatever the rows of the other years.
C8_AnosIndependentes ==
    pc \in {"done", "error"} =>
        \A y \in ValoresDe(data, "ANO") :
            ~ProcessarAnoRaises(DataAno(data, y)) =>
                /\ pc = "done"
                /\ y \in DOMAIN resultados
                /\ resultados[y] = processar_ano(DataAno(data, y))

----------------------------------------------------------------------------
(* C6 *)

\* the readings in the window whose conversion gives no month
Inconvertiveis == {i \in Leituras : MesDaLinha(i) = 0}

\* C6: when the conversion fails for a row in the window, calcular_somatorios
\* still returns, the row is under no key, and every other reading in the
\* window is under its year, month, day and minute keys.
C6_LinhaInconvertivelExcluida ==
    (pc \in {"done", "error"} /\ Inconvertiveis # {}) =>
        /\ pc = "done"
        /\ \A i \in Leituras \ Inconvertiveis : \A s \in SensorColumns :
               /\ data[i].ANO \in DOMAIN resultados
               /\ MesDaLinha(i) \in DOMAIN resultados[data[i].ANO]
               /\ data[i].DIAJ \in
                      DOMAIN resultados[data[i].ANO][MesDaLinha(i)][s].SomatorioHora
        /\ \A y \in DOMAIN resultados : 0 \notin DOMAIN resultados[y]

----------------------------------------------------------------------------
(* C3 *)

\* C3: the value of a raw cell that enters the sums is 0 when the cell is a
\* missing-value token, is no number, or spells a negative, infinite or NaN
\* number, and is the number it spells otherwise, with a comma or a point as
\* decimal separator; it is always finite and >= 0.
C3_ValorNormalizado ==
    pc = "treated" =>
        LET p == ToNumericCoerce(StrReplace(arg, ",", "."))
        IN  /\ IsFinite(ret)
            /\ ret.v >= 0
            /\ ret = (IF p.k # "num" \/ p.v < 0 THEN Num(0) ELSE p)

----------------------------------------------------------------------------
(* C4, C5 *)

\* the Gregorian leap-year rule
AnoBissexto(y) == y % 4 = 0 /\ (y % 100 # 0 \/ y % 400 = 0)

DiasDoMes(y, m) ==
    IF m = 2 THEN (IF AnoBissexto(y) THEN 29 ELSE 28)
    ELSE IF m \in {4, 6, 9, 11} THEN 30
    ELSE 31

\* the position of (m, d) among the calendar dates of year y
OrdinalNoAno(y, m, d) ==
    Cardinality({md \in (1..12) \X (1..31) :
                    /\ md[2] <= DiasDoMes(y, md[1])
                    /\ (md[1] < m \/ (md[1] = m /\ md[2] <= d))})

\* the day of year is one of the days of year y
DiaValidoNoAno(y, diaj) == 1 <= diaj /\ diaj <= (IF AnoBissexto(y) THEN 366 ELSE 365)

\* C4: the conversion returns no month and day when day_of_year is not a day
\* of the year (below 1, above 366, or 366 in a common year); day 366 of 2020
\* gives (12, 31).
C4_DiaForaDoAnoFalha ==
    pc = "returned" =>
        /\ ~DiaValidoNoAno(arg.ano, arg.diaj) => ret = NoneNone
        /\ (arg.ano = 2020 /\ arg.diaj = 366) => ret = <<12, 31>>

\* C5: for a four-digit year and a day of that year the conversion returns a
\* date of the calendar whose position within the year is the day of year
\* again.
C5_IdaEVolta ==
    (/\ pc = "returned"
     /\ 1000 <= arg.ano /\ arg.ano <= 9999
     /\ DiaValidoNoAno(arg.ano, arg.diaj)) =>
        /\ ret # NoneNone
        /\ ret[1] \in 1..12
        /\ ret[2] \in 1..DiasDoMes(arg.ano, ret[1])
        /\ OrdinalNoAno(arg.ano, ret[1], ret[2]) = arg.diaj

\* day 366 of the leap year 2020 has returned 31 December
C5_Witness ==
    /\ pc = "returned"
    /\ arg = [ano |-> 2020, diaj |-> 366]
    /\ ret = <<12, 31>>

====
